---- MODULE Spec2Model ----
(***************************************************************************)
(* The EMG master portal: four Streamlit pages (London Tracker, Kitchener  *)
(* Finance, Expense Tracker, Tax Center) that read three spreadsheets and  *)
(* render financial summaries.  A page run is one action: it fetches the   *)
(* sheet, cleans the rows, derives fees / tax lines and aggregates.        *)
(*                                                                         *)
(* Text cells are sequences of one-character strings, so that lower(),     *)
(* substring search, stripping and numeric / date parsing are computed.    *)
(* Money is in cents.  A pandas NaN is [nan |-> TRUE], a NaT is            *)
(* [nat |-> TRUE].                                                         *)
(***************************************************************************)
EXTENDS Integers, Sequences, FiniteSets, TLC

VARIABLES
  now,         \* datetime.now(): [y, m, d]
  lonHeaders,  \* London sheet: header row
  lonRows,     \* London sheet: data rows, cells aligned with lonHeaders
  kitRows,     \* Kitchener "Payments" tab: data rows <<Date, Sender, Amount, Doctor>>
  expRows,     \* Kitchener "Expenses_Form" tab: data rows, any width
  view,          \* what the page run on screen computed and rendered
  session_state  \* st.session_state: the draft values of the expense form

vars == <<now, lonHeaders, lonRows, kitRows, expRows, view, session_state>>

----------------------------------------------------------------------------
(* Python str operations on character sequences                            *)

UpperChars == <<"A","B","C","D","E","F","G","H","I","J","K","L","M",
                "N","O","P","Q","R","S","T","U","V","W","X","Y","Z">>
LowerChars == <<"a","b","c","d","e","f","g","h","i","j","k","l","m",
                "n","o","p","q","r","s","t","u","v","w","x","y","z">>
DigitChars == <<"0","1","2","3","4","5","6","7","8","9">>

LowerChar(c) ==
  IF \E i \in 1..26 : UpperChars[i] = c
  THEN LowerChars[CHOOSE i \in 1..26 : UpperChars[i] = c]
  ELSE c

\* str.lower()
Lower(s) == [i \in 1..Len(s) |-> LowerChar(s[i])]

\* sub in s
Contains(sub, s) ==
  \E i \in 0..(Len(s) - Len(sub)) : SubSeq(s, i + 1, i + Len(sub)) = sub

RECURSIVE LStrip(_)
LStrip(s) == IF s # <<>> /\ Head(s) = " " THEN LStrip(Tail(s)) ELSE s

RECURSIVE RStrip(_)
RStrip(s) ==
  IF s # <<>> /\ s[Len(s)] = " " THEN RStrip(SubSeq(s, 1, Len(s) - 1)) ELSE s

\* str.strip()
Strip(s) == RStrip(LStrip(s))

\* str.replace(ch, '') for a one-character pattern
RemoveChar(s, ch) == SelectSeq(s, LAMBDA c : c # ch)

IsDigit(c) == \E i \in 1..10 : DigitChars[i] = c
DigitVal(c) == (CHOOSE i \in 1..10 : DigitChars[i] = c) - 1
AllDigits(s) == s # <<>> /\ \A i \in 1..Len(s) : IsDigit(s[i])

RECURSIVE ToNat(_)
ToNat(s) ==
  IF s = <<>> THEN 0
  ELSE ToNat(SubSeq(s, 1, Len(s) - 1)) * 10 + DigitVal(s[Len(s)])

\* list.index(x) counted from 1; 0 when x is not in s
IndexOf(s, x) ==
  IF \E i \in 1..Len(s) : s[i] = x
  THEN CHOOSE i \in 1..Len(s) : s[i] = x /\ \A j \in 1..(i - 1) : s[j] # x
  ELSE 0

\* the sequence s as a set
Range(s) == {s[i] : i \in 1..Len(s)}

----------------------------------------------------------------------------
(* pandas to_numeric / to_datetime with errors='coerce'                    *)

NaN == [nan |-> TRUE, v |-> 0]
Num(v) == [nan |-> FALSE, v |-> v]

\* digits after the decimal point, as cents; cells of the model carry at
\* most two decimals
FracCents(f) ==
  IF Len(f) = 0 THEN 0
  ELSE IF Len(f) = 1 THEN DigitVal(f[1]) * 10
  ELSE DigitVal(f[1]) * 10 + DigitVal(f[2])

\* an unsigned decimal literal: digits, optionally one point and digits
UnsignedCents(s) ==
  LET p == IndexOf(s, ".")
      whole == IF p = 0 THEN s ELSE SubSeq(s, 1, p - 1)
      frac  == IF p = 0 THEN <<>> ELSE SubSeq(s, p + 1, Len(s))
      ok == /\ whole # <<>> \/ frac # <<>>
            /\ whole = <<>> \/ AllDigits(whole)
            /\ frac = <<>> \/ AllDigits(frac)
  IN IF ok THEN Num(ToNat(whole) * 100 + FracCents(frac)) ELSE NaN

\* pd.to_numeric(cell, errors='coerce') of one text cell, in cents
ToNumeric(s) ==
  IF s = <<>> THEN NaN
  ELSE IF Head(s) = "-"
       THEN LET u == UnsignedCents(Tail(s))
            IN IF u.nan THEN NaN ELSE Num(0 - u.v)
       ELSE UnsignedCents(s)

\* .astype(str).str.replace('$','').str.replace(',','') then to_numeric
CleanAmount(s) == ToNumeric(RemoveChar(RemoveChar(s, "$"), ","))

NaT == [nat |-> TRUE, y |-> 0, m |-> 0, d |-> 0]
Timestamp(y, m, d) == [nat |-> FALSE, y |-> y, m |-> m, d |-> d]

IsLeap(y) == (y % 4 = 0 /\ y % 100 # 0) \/ y % 400 = 0
DaysInMonth(y, m) ==
  IF m = 2 THEN (IF IsLeap(y) THEN 29 ELSE 28)
  ELSE IF m \in {4, 6, 9, 11} THEN 30 ELSE 31

ValidDate(y, m, d) == m \in 1..12 /\ d >= 1 /\ d <= DaysInMonth(y, m)

\* the text before the first space: the date part of "2024-05-02 10:00:00"
DatePart(s) ==
  LET p == IndexOf(s, " ") IN IF p = 0 THEN s ELSE SubSeq(s, 1, p - 1)

\* pd.to_datetime(cell, dayfirst=dayfirst, errors='coerce') of one text cell.
\* Two notations are read: ISO "YYYY-MM-DD" (dayfirst does not apply) and
\* "AA/BB/YYYY", where dayfirst chooses which of AA, BB is the day and the
\* other order is tried when the preferred one is no date.  Other text is NaT.
ParseDate(s, dayfirst) ==
  LET t == DatePart(s) IN
  IF Len(t) # 10 THEN NaT
  ELSE IF /\ t[5] = "-" /\ t[8] = "-"
          /\ AllDigits(SubSeq(t, 1, 4)) /\ AllDigits(SubSeq(t, 6, 7))
          /\ AllDigits(SubSeq(t, 9, 10))
  THEN LET y == ToNat(SubSeq(t, 1, 4))
           m == ToNat(SubSeq(t, 6, 7))
           d == ToNat(SubSeq(t, 9, 10))
       IN IF ValidDate(y, m, d) THEN Timestamp(y, m, d) ELSE NaT
  ELSE IF /\ t[3] = "/" /\ t[6] = "/"
          /\ AllDigits(SubSeq(t, 1, 2)) /\ AllDigits(SubSeq(t, 4, 5))
          /\ AllDigits(SubSeq(t, 7, 10))
  THEN LET a == ToNat(SubSeq(t, 1, 2))
           b == ToNat(SubSeq(t, 4, 5))
           y == ToNat(SubSeq(t, 7, 10))
           dayA == Timestamp(y, b, a)
           monA == Timestamp(y, a, b)
       IN IF dayfirst
          THEN (IF ValidDate(y, b, a) THEN dayA
                ELSE IF ValidDate(y, a, b) THEN monA ELSE NaT)
          ELSE (IF ValidDate(y, a, b) THEN monA
                ELSE IF ValidDate(y, b, a) THEN dayA ELSE NaT)
  ELSE NaT

month_order == <<"January", "February", "March", "April", "May", "June", "July",
                 "August", "September", "October", "November", "December">>

\* dt.strftime('%B')
MonthName(ts) == month_order[ts.m]

\* ts - pd.DateOffset(months=n): the month moves back, the day is clipped
MinusMonths(ts, n) ==
  LET k == ts.y * 12 + (ts.m - 1) - n
      y == k \div 12
      m == (k % 12) + 1
      d == IF ts.d > DaysInMonth(y, m) THEN DaysInMonth(y, m) ELSE ts.d
  IN Timestamp(y, m, d)

\* a >= b on timestamps
DateGE(a, b) ==
  \/ a.y > b.y
  \/ a.y = b.y /\ a.m > b.m
  \/ a.y = b.y /\ a.m = b.m /\ a.d >= b.d

----------------------------------------------------------------------------
(* Exact fractions: the pages divide floats; the model keeps numerator and *)
(* denominator (the denominator is positive wherever a fraction is built). *)

Rat(n, d) == [num |-> n, den |-> d]
RatLE(a, b) == a.num * b.den <= b.num * a.den
\* Python min(a, b): the first argument unless the second is smaller
RatMin(a, b) == IF RatLE(a, b) THEN a ELSE b
NoRat == [num |-> 0, den |-> 0]

----------------------------------------------------------------------------
(* Text constants of the pages                                             *)

KwNewConsult == <<"n","e","w"," ","c","o","n","s","u","l","t">>
KwNonCts == <<"n","o","n"," ","c","t","s">>
KwFollowUp == <<"f","o","l","l","o","w"," ","u","p">>
KwEncounter == <<"e","n","c","o","u","n","t","e","r">>
KwConsult == <<"c","o","n","s","u","l","t">>
H_Timestamp == <<"T","i","m","e","s","t","a","m","p">>
H_Date == <<"D","a","t","e">>
H_name == <<"n","a","m","e">>
H_Name == <<"N","a","m","e">>
H_TypeOfEncounter == <<"T","y","p","e"," ","o","f"," ","e","n","c","o","u","n","t","e","r">>

----------------------------------------------------------------------------
(* London Tracker (pages/1_London_Tracker.py)                              *)

\* 'name' if 'name' in df.columns else 'Name'
name_col(headers) == IF H_name \in Range(headers) THEN H_name ELSE H_Name

\* 'Timestamp' if 'Timestamp' in df.columns else 'Date'
date_col(headers) == IF H_Timestamp \in Range(headers) THEN H_Timestamp ELSE H_Date

\* df[df[name_col].astype(str).str.strip() != ""], applied when the column exists
NameKept(headers, cells) ==
  LET i == IndexOf(headers, name_col(headers))
  IN i = 0 \/ Strip(cells[i]) # <<>>

\* the first column whose lower-cased header contains "encounter" or
\* "consult"; 0 stands for None
encounter_col(headers) ==
  IF \E i \in 1..Len(headers) :
       Contains(KwEncounter, Lower(headers[i])) \/ Contains(KwConsult, Lower(headers[i]))
  THEN CHOOSE i \in 1..Len(headers) :
         /\ Contains(KwEncounter, Lower(headers[i])) \/ Contains(KwConsult, Lower(headers[i]))
         /\ \A j \in 1..(i - 1) :
              ~(Contains(KwEncounter, Lower(headers[j])) \/ Contains(KwConsult, Lower(headers[j])))
  ELSE 0

\* a faulty variant of calc_fee: "non cts" tested before "new consult"
calc_fee_NonCtsFirst(headers, cells) ==
  LET e == encounter_col(headers) IN
  IF e # 0
  THEN LET t == Lower(cells[e]) IN
       IF Contains(KwNonCts, t) THEN 6500
       ELSE IF Contains(KwNewConsult, t) THEN 8500
       ELSE IF Contains(KwFollowUp, t) THEN 6500
       ELSE 0
  ELSE 0

\* a faulty variant of calc_fee for the unmatched case: "follow up" bills nothing
calc_fee_FollowUpFree(headers, cells) ==
  LET e == encounter_col(headers) IN
  IF e # 0
  THEN LET t == Lower(cells[e]) IN
       IF Contains(KwNewConsult, t) THEN 8500
       ELSE IF Contains(KwNonCts, t) THEN 6500
       ELSE 0
  ELSE 0

\* calc_fee(row), in cents
calc_fee(headers, cells) ==
  LET e == encounter_col(headers) IN
  IF e # 0
  THEN LET t == Lower(cells[e]) IN
       IF Contains(KwNewConsult, t) THEN 8500
       ELSE IF Contains(KwNonCts, t) THEN 6500
       ELSE IF Contains(KwFollowUp, t) THEN 6500
       ELSE 0
  ELSE 0

\* steps 1-3 of main: the cleaned frame with its Date Object, Fee, Year and
\* Month_Name columns.  cells keeps the sheet's own columns.
LondonFrame(headers, rows) ==
  LET named == SelectSeq(rows, LAMBDA r : NameKept(headers, r))
      di == IndexOf(headers, date_col(headers))
      dated == [i \in 1..Len(named) |->
                  [cells |-> named[i], dt |-> ParseDate(named[i][di], TRUE)]]
      kept == SelectSeq(dated, LAMBDA r : ~r.dt.nat)
  IN [i \in 1..Len(kept) |->
        [cells |-> kept[i].cells,
         dt |-> kept[i].dt,
         Fee |-> calc_fee(headers, kept[i].cells),
         Year |-> kept[i].dt.y,
         Month_Name |-> MonthName(kept[i].dt)]]

\* df['Fee'].sum()
RECURSIVE SumFee(_)
SumFee(df) == IF df = <<>> THEN 0 ELSE df[1].Fee + SumFee(Tail(df))

\* df['Year'].unique()
available_years(df) == {df[i].Year : i \in 1..Len(df)}

\* the sort key of a month name: month_order.index(x) if x in month_order
\* else 99
MonthKey(x) == IF x \in Range(month_order) THEN IndexOf(month_order, x) - 1 ELSE 99

\* list.sort(key=MonthKey, reverse=True): the keys descend, names with equal
\* keys keep their order
RECURSIVE SortMonths(_)
SortMonths(names) ==
  IF names = <<>> THEN <<>>
  ELSE LET top == CHOOSE i \in 1..Len(names) :
                    /\ \A j \in 1..Len(names) : MonthKey(names[j]) <= MonthKey(names[i])
                    /\ \A j \in 1..(i - 1) : MonthKey(names[j]) < MonthKey(names[i])
       IN <<names[top]>> \o
          SortMonths(SubSeq(names, 1, top - 1) \o SubSeq(names, top + 1, Len(names)))

\* Series.unique(): the values in the order of their first appearance
RECURSIVE Unique(_)
Unique(s) ==
  IF s = <<>> THEN <<>>
  ELSE <<s[1]>> \o Unique(SelectSeq(Tail(s), LAMBDA x : x # s[1]))

\* list(year_df['Month_Name'].unique()), sorted by month_order index,
\* reverse=True
available_months(df, selected_year) ==
  LET year_df == SelectSeq(df, LAMBDA r : r.Year = selected_year)
  IN SortMonths(Unique([i \in 1..Len(year_df) |-> year_df[i].Month_Name]))

view_options(df, selected_year) ==
  <<"Current Year (Overview)", "Last X Months">> \o available_months(df, selected_year)

NoDelta == [bound |-> TRUE, none |-> TRUE, pct |-> NoRat, prev_year |-> 0]
UnboundDelta == [bound |-> FALSE, none |-> TRUE, pct |-> NoRat, prev_year |-> 0]

\* a faulty variant of YoYDelta: the guard reads prev_total >= 0
YoYDelta_GuardGE(current_total, prev_total, prev_year) ==
  IF prev_total >= 0
  THEN [bound |-> TRUE, none |-> FALSE,
        pct |-> Rat((current_total - prev_total) * 100, prev_total),
        prev_year |-> prev_year]
  ELSE NoDelta

\* "YoY Logic": metric_delta = None unless prev_total > 0
YoYDelta(current_total, prev_total, prev_year) ==
  IF prev_total > 0
  THEN [bound |-> TRUE, none |-> FALSE,
        pct |-> Rat((current_total - prev_total) * 100, prev_total),
        prev_year |-> prev_year]
  ELSE NoDelta

\* the three branches on selected_view: the window's rows, the divisor of the
\* monthly average, the goal target and the delta
LondonWindow(df, clock, selected_year, selected_view, monthly_goal, months_back) ==
  IF selected_view = "Last X Months"
  THEN [display_df |-> SelectSeq(df, LAMBDA r : DateGE(r.dt, MinusMonths(clock, months_back))),
        months_divisor |-> months_back,
        target_income |-> monthly_goal * months_back,
        metric_delta |-> UnboundDelta]
  ELSE IF selected_view = "Current Year (Overview)"
  THEN LET display_df == SelectSeq(df, LAMBDA r : r.Year = clock.y)
           prev_year_df == SelectSeq(df, LAMBDA r : r.Year = clock.y - 1)
       IN [display_df |-> display_df,
           months_divisor |-> IF selected_year = clock.y THEN clock.m ELSE 12,
           target_income |-> monthly_goal * 12,
           metric_delta |-> YoYDelta(SumFee(display_df), SumFee(prev_year_df), clock.y - 1)]
  ELSE [display_df |-> SelectSeq(df, LAMBDA r : r.Month_Name = selected_view),
        months_divisor |-> 0,
        target_income |-> monthly_goal,
        metric_delta |-> NoDelta]

NotShown == [shown |-> FALSE, value |-> NoRat]

\* "GOAL PROGRESS": min(total / target_income, 1.0), shown when target_income > 0
GoalProgress(total, target_income) ==
  IF target_income > 0
  THEN [shown |-> TRUE, value |-> RatMin(Rat(total, target_income), Rat(1, 1))]
  ELSE NotShown

\* a faulty variant of PayPeriod1: the first half ends on the 14th
PayPeriod1_Before15(display_df) == SelectSeq(display_df, LAMBDA r : r.dt.d < 15)

\* display_df[display_df['Date Object'].dt.day <= 15]
PayPeriod1(display_df) == SelectSeq(display_df, LAMBDA r : r.dt.d <= 15)

\* display_df[display_df['Date Object'].dt.day > 15]
PayPeriod2(display_df) == SelectSeq(display_df, LAMBDA r : r.dt.d > 15)

\* main from "LOGIC" to the pay periods, for a cleaned frame df.  The
\* "Last X Months" branch binds no metric_delta, so `if metric_delta:` raises
\* UnboundLocalError there: what precedes it (title, total, goal progress)
\* is on screen, what follows it is not.
LondonMetrics(df, clock, selected_year, selected_view, monthly_goal, months_back) ==
  LET w == LondonWindow(df, clock, selected_year, selected_view, monthly_goal, months_back)
      total_period_income == SumFee(w.display_df)
      total_patients == Len(w.display_df)
      completes == w.metric_delta.bound
      periods == completes /\ w.months_divisor = 0
  IN [page |-> "london",
      error |-> IF completes THEN "none" ELSE "UnboundLocalError",
      no_data |-> FALSE,
      df |-> df,
      selected_year |-> selected_year,
      selected_view |-> selected_view,
      monthly_goal |-> monthly_goal,
      months_back |-> months_back,
      display_df |-> w.display_df,
      months_divisor |-> w.months_divisor,
      target_income |-> w.target_income,
      metric_delta |-> w.metric_delta,
      total_period_income |-> total_period_income,
      total_patients |-> total_patients,
      monthly_avg |-> IF w.months_divisor > 0
                      THEN [shown |-> TRUE, value |-> Rat(total_period_income, w.months_divisor)]
                      ELSE NotShown,
      progress |-> GoalProgress(total_period_income, w.target_income),
      avg_per_patient |-> IF ~completes THEN NotShown
                          ELSE IF total_patients > 0
                          THEN [shown |-> TRUE, value |-> Rat(total_period_income, total_patients)]
                          ELSE [shown |-> TRUE, value |-> Rat(0, 1)],
      periods_shown |-> periods,
      period_1 |-> IF periods THEN PayPeriod1(w.display_df) ELSE <<>>,
      period_2 |-> IF periods THEN PayPeriod2(w.display_df) ELSE <<>>]

\* a run that raised before any metric: KeyError when the sheet has neither a
\* 'Timestamp' nor a 'Date' column, ValueError when df.apply(calc_fee, axis=1)
\* of a frame without rows yields a frame that cannot be set as one column
LondonRaised(err) == [page |-> "london", error |-> err, no_data |-> FALSE]

\* st.info("No data found.")
LondonNoData == [page |-> "london", error |-> "none", no_data |-> TRUE]

\* main of the London Tracker: the set of outcomes of one run over the sheet,
\* for the sidebar choices offered (goals, durations).  When cleaning leaves no
\* row, whether line 87 raises depends on the pandas build: both outcomes are
\* in the set; if it does not raise, the year selectbox is empty
\* (selected_year None, written 0).
LondonTracker(headers, rows, clock, goals, durations) ==
  IF rows = <<>> THEN {LondonNoData}
  ELSE IF date_col(headers) \notin Range(headers) THEN {LondonRaised("KeyError")}
  ELSE LET df == LondonFrame(headers, rows)
           years == IF df = <<>> THEN {0} ELSE available_years(df)
       IN (IF df = <<>> THEN {LondonRaised("ValueError")} ELSE {}) \cup
          { LondonMetrics(df, clock, y, v, g, n) :
              <<y, v, g, n>> \in
                { c \in years \X Range(view_options(df, 0) \o month_order) \X goals \X (durations \cup {0}) :
                    /\ c[2] \in Range(view_options(df, c[1]))
                    /\ c[4] = 0 <=> c[2] # "Last X Months" } }

----------------------------------------------------------------------------
(* Kitchener Finance (pages/2_Kitchener_Finance.py)                        *)

H_Sender == <<"S","e","n","d","e","r">>
H_Amount == <<"A","m","o","u","n","t">>
H_Doctor == <<"D","o","c","t","o","r">>
KwDoctor == <<"d","o","c","t","o","r">>
KwDoc == <<"d","o","c">>
KwTripic == <<"t","r","i","p","i","c">>
KwCartagena == <<"c","a","r","t","a","g","e","n","a">>

\* the header row of the "Payments" tab
KitchenerHeaders == <<H_Date, H_Sender, H_Amount, H_Doctor>>

\* "Smart Column Finding": the first header containing "doctor" or "doc",
\* else the default 'Doctor'
doc_col(headers) ==
  IF \E i \in 1..Len(headers) :
       Contains(KwDoctor, Lower(headers[i])) \/ Contains(KwDoc, Lower(headers[i]))
  THEN headers[CHOOSE i \in 1..Len(headers) :
         /\ Contains(KwDoctor, Lower(headers[i])) \/ Contains(KwDoc, Lower(headers[i]))
         /\ \A j \in 1..(i - 1) :
              ~(Contains(KwDoctor, Lower(headers[j])) \/ Contains(KwDoc, Lower(headers[j])))]
  ELSE H_Doctor

\* "Clean Data": rows with a non-blank, parseable Date; Amount through
\* to_numeric, a NaN staying a NaN
KitchenerFrame(headers, rows) ==
  LET di == IndexOf(headers, H_Date)
      ai == IndexOf(headers, H_Amount)
      filled == SelectSeq(rows, LAMBDA r : Strip(r[di]) # <<>>)
      dated == [i \in 1..Len(filled) |->
                  [cells |-> filled[i], dt |-> ParseDate(filled[i][di], FALSE)]]
      kept == SelectSeq(dated, LAMBDA r : ~r.dt.nat)
  IN [i \in 1..Len(kept) |->
        [cells |-> kept[i].cells,
         dt |-> kept[i].dt,
         Amount |-> CleanAmount(kept[i].cells[ai]),
         Year |-> kept[i].dt.y,
         Month_Name |-> MonthName(kept[i].dt)]]

\* df['Amount'].sum(): pandas skips NaN
RECURSIVE SumAmount(_)
SumAmount(df) ==
  IF df = <<>> THEN 0
  ELSE (IF df[1].Amount.nan THEN 0 ELSE df[1].Amount.v) + SumAmount(Tail(df))

\* display_df[display_df[doc_col].astype(str).str.contains(kw, case=False)]
DoctorRows(headers, display_df, kw) ==
  LET ci == IndexOf(headers, doc_col(headers))
  IN IF ci = 0 THEN <<>>
     ELSE SelectSeq(display_df, LAMBDA r : Contains(kw, Lower(r.cells[ci])))

\* the branches on selected_view of the Kitchener page
KitchenerWindow(df, clock, selected_year, selected_view, monthly_goal, months_back) ==
  IF selected_view = "Last X Months"
  THEN [display_df |-> SelectSeq(df, LAMBDA r : DateGE(r.dt, MinusMonths(clock, months_back))),
        months_divisor |-> months_back,
        target_income |-> monthly_goal * months_back]
  ELSE IF selected_view = "Current Year (Overview)"
  THEN [display_df |-> SelectSeq(df, LAMBDA r : r.Year = clock.y),
        months_divisor |-> IF selected_year = clock.y THEN clock.m ELSE 12,
        target_income |-> monthly_goal * 12]
  ELSE [display_df |-> SelectSeq(df, LAMBDA r : r.Month_Name = selected_view),
        months_divisor |-> 0,
        target_income |-> monthly_goal]

\* the earliest / latest Date Object of a frame with at least one row
MinDate(df) == (CHOOSE i \in 1..Len(df) : \A j \in 1..Len(df) : DateGE(df[j].dt, df[i].dt))
MaxDate(df) == (CHOOSE i \in 1..Len(df) : \A j \in 1..Len(df) : DateGE(df[i].dt, df[j].dt))

\* "Calculate Metrics" and "Display".  st.progress accepts a float in
\* [0.0, 1.0] and raises StreamlitAPIException for any other: the metrics
\* under the progress bar are then not rendered.
KitchenerMetrics(headers, df, clock, selected_year, selected_view, monthly_goal, months_back) ==
  LET w == KitchenerWindow(df, clock, selected_year, selected_view, monthly_goal, months_back)
      total_income == SumAmount(w.display_df)
      tripic_total == SumAmount(DoctorRows(headers, w.display_df, KwTripic))
      cartagena_total == SumAmount(DoctorRows(headers, w.display_df, KwCartagena))
      progress == GoalProgress(total_income, w.target_income)
      completes == ~(progress.shown /\ progress.value.num < 0)
  IN [page |-> "kitchener",
      error |-> IF completes THEN "none" ELSE "StreamlitAPIException",
      no_data |-> FALSE,
      df |-> df,
      selected_year |-> selected_year,
      selected_view |-> selected_view,
      monthly_goal |-> monthly_goal,
      months_back |-> months_back,
      display_df |-> w.display_df,
      months_divisor |-> w.months_divisor,
      target_income |-> w.target_income,
      total_income |-> total_income,
      tripic_total |-> tripic_total,
      cartagena_total |-> cartagena_total,
      monthly_avg |-> IF w.months_divisor > 0
                      THEN [shown |-> TRUE, value |-> Rat(total_income, w.months_divisor)]
                      ELSE NotShown,
      progress |-> progress,
      date_range |-> IF ~completes \/ w.display_df = <<>>
                     THEN [label |-> "-", min |-> NaT, max |-> NaT]
                     ELSE [label |-> "range",
                           min |-> w.display_df[MinDate(w.display_df)].dt,
                           max |-> w.display_df[MaxDate(w.display_df)].dt]]

\* st.info("Sheet is connected, but empty.")
KitchenerNoData == [page |-> "kitchener", error |-> "none", no_data |-> TRUE]

\* the month names Kitchener offers: year_df['Month_Name'].unique() sorted by
\* month_order index, reverse=True
KitchenerViewOptions(df, selected_year) ==
  <<"Current Year (Overview)", "Last X Months">> \o available_months(df, selected_year)

\* main of the Kitchener page: the outcomes of one run.  When cleaning leaves
\* no row the year selectbox is empty (selected_year None, written 0).
KitchenerFinance(headers, rows, clock, goals, durations) ==
  IF rows = <<>> THEN {KitchenerNoData}
  ELSE LET df == KitchenerFrame(headers, rows)
           years == IF df = <<>> THEN {0} ELSE available_years(df)
       IN { KitchenerMetrics(headers, df, clock, c[1], c[2], c[3], c[4]) :
              c \in { c \in years \X Range(KitchenerViewOptions(df, 0) \o month_order)
                             \X goals \X (durations \cup {0}) :
                        /\ c[2] \in Range(KitchenerViewOptions(df, c[1]))
                        /\ c[4] = 0 <=> c[2] # "Last X Months" } }

----------------------------------------------------------------------------
(* Expense Tracker (pages/3_Expense_Tracker.py)                            *)

\* the options of the form's Category selectbox
F_Travel == <<"T","r","a","v","e","l","/","P","a","r","k","i","n","g">>
F_Medical == <<"M","e","d","i","c","a","l"," ","S","u","p","p","l","i","e","s">>
F_ProfFees == <<"P","r","o","f","e","s","s","i","o","n","a","l"," ","F","e","e","s">>
F_Education == <<"E","d","u","c","a","t","i","o","n">>
F_Office == <<"O","f","f","i","c","e","/","S","o","f","t","w","a","r","e">>
F_Meals == <<"M","e","a","l","s">>
F_Other == <<"O","t","h","e","r">>
FormCategories == <<F_Travel, F_Medical, F_ProfFees, F_Education, F_Office, F_Meals, F_Other>>

\* while len(row) < n: row.append("")
RECURSIVE Pad(_, _)
Pad(row, n) == IF Len(row) < n THEN Pad(Append(row, <<>>), n) ELSE row

\* a faulty variant of ExpenseRecord: the layout is decided per row (a row whose
\* 4th cell is no number and whose 2nd cell is no date is read as old layout:
\* date in cell 1, category in cell 2, amount in cell 3)
ExpenseRecord_PerRow(row) ==
  LET r == Pad(row, 6)
      old == CleanAmount(r[4]).nan /\ ParseDate(r[2], FALSE).nat
  IN [cells |-> row,
      Date |-> IF old THEN r[1] ELSE r[2],
      Category |-> IF old THEN r[2] ELSE r[3],
      Amount |-> IF old THEN r[3] ELSE r[4],
      Location |-> r[5],
      Receipt |-> r[6],
      Description |-> IF old THEN r[2] ELSE r[3]]

\* "FORCE MAPPING (A=Timestamp, B=Date, C=Category, D=Amount, E=Loc,
\* F=Receipt)": one record per data row.  cells is the sheet row the record
\* stems from (the frame's index).
ExpenseRecord(row) ==
  LET r == Pad(row, 6)
  IN [cells |-> row,
      Date |-> r[2],
      Category |-> r[3],
      Amount |-> r[4],
      Location |-> r[5],
      Receipt |-> r[6],
      Description |-> r[3]]

\* get_expense_data(): the frame of all data rows
get_expense_data(rows) == [i \in 1..Len(rows) |-> ExpenseRecord(rows[i])]

\* .fillna(0) of a numeric column
FillNa0(a) == IF a.nan THEN Num(0) ELSE a

\* "Clean Data": Amount through to_numeric and fillna(0), rows without a
\* parseable Date dropped
ExpenseFrame(rows) ==
  LET raw == get_expense_data(rows)
      typed == [i \in 1..Len(raw) |->
                  [cells |-> raw[i].cells,
                   Date |-> raw[i].Date,
                   Category |-> raw[i].Category,
                   Amount |-> FillNa0(CleanAmount(raw[i].Amount)),
                   Location |-> raw[i].Location,
                   Description |-> raw[i].Description,
                   dt |-> ParseDate(raw[i].Date, FALSE)]]
      kept == SelectSeq(typed, LAMBDA r : ~r.dt.nat)
  IN [i \in 1..Len(kept) |->
        [cells |-> kept[i].cells,
         Date |-> kept[i].Date,
         Category |-> kept[i].Category,
         Amount |-> kept[i].Amount,
         Location |-> kept[i].Location,
         Description |-> kept[i].Description,
         dt |-> kept[i].dt,
         Year |-> kept[i].dt.y]]

\* nothing under "DISPLAY DATA" is rendered: the sheet has no data row, or no
\* row has a parseable date
ExpenseNoData(df) ==
  [page |-> "expense", error |-> "none", no_data |-> TRUE, df |-> df]

\* section 3 of main, "DISPLAY DATA": the outcomes of one run
ExpenseTracker(rows) ==
  IF rows = <<>> THEN {ExpenseNoData(<<>>)}
  ELSE LET df == ExpenseFrame(rows) IN
       IF df = <<>> THEN {ExpenseNoData(df)}
       ELSE { [page |-> "expense", error |-> "none", no_data |-> FALSE,
               df |-> df,
               selected_year |-> y,
               year_df |-> SelectSeq(df, LAMBDA r : r.Year = y),
               total_exp |-> SumAmount(SelectSeq(df, LAMBDA r : r.Year = y))] :
              y \in available_years(df) }

\* "Initialize Session State for Form Values": today, 0.00, "", "Other"
FormDefaults(clock) ==
  [form_date |-> clock, form_amount |-> 0, form_merchant |-> <<>>, form_category |-> F_Other]

\* the decimal digits of a natural number
DigitChar(n) == <<"0", "1", "2", "3", "4", "5", "6", "7", "8", "9">>[n + 1]
RECURSIVE Digits(_)
Digits(n) == IF n < 10 THEN <<DigitChar(n)>> ELSE Digits(n \div 10) \o <<DigitChar(n % 10)>>
TwoDigits(n) == <<DigitChar(n \div 10), DigitChar(n % 10)>>

\* date_val.strftime("%Y-%m-%d"), for a year of four digits
FormatDate(ts) == Digits(ts.y) \o <<"-">> \o TwoDigits(ts.m) \o <<"-">> \o TwoDigits(ts.d)

\* datetime.now().strftime("%Y-%m-%d %H:%M:%S"); the clock has no time of
\* day, written as midnight
FormatTimestamp(ts) == FormatDate(ts) \o <<" ", "0", "0", ":", "0", "0", ":", "0", "0">>

\* the text get_all_values() returns for a float appended by append_row:
\* 45.0 -> "45", 12.5 -> "12.5", 0.05 -> "0.05"
AmountCell(cents) ==
  LET whole == Digits(cents \div 100)
      frac == cents % 100
  IN IF frac = 0 THEN whole
     ELSE IF frac % 10 = 0 THEN whole \o <<".", DigitChar(frac \div 10)>>
     ELSE whole \o <<".">> \o TwoDigits(frac)

\* add_expense: "Append Row (Form Structure)"
add_expense(rows, clock, date_val, category, amount, location, receipt_note) ==
  Append(rows, <<FormatTimestamp(clock), FormatDate(date_val), category,
                 AmountCell(amount), location, receipt_note>>)

N_AIScanned == <<" ","(","A","I"," ","S","c","a","n","n","e","d",")">>
N_ManualEntry == <<" ","(","M","a","n","u","a","l"," ","E","n","t","r","y",")">>

\* f"{description} ({receipt_note})"
ReceiptNote(description, uploaded) ==
  description \o (IF uploaded THEN N_AIScanned ELSE N_ManualEntry)

\* a faulty variant of Accepts: an amount of 0 is saved too
Accepts_Zero(amount) == amount >= 0

\* `if amount > 0` of the submit handler
Accepts(amount) == amount > 0

\* st.warning("Amount must be > $0") under the form, which still shows the
\* amount entered; the display section below is rendered as before
Warned(v, amount) ==
  [f \in DOMAIN v \cup {"warning", "amount"} |->
     IF f = "warning" THEN TRUE ELSE IF f = "amount" THEN amount ELSE v[f]]

\* v.split("/")[0]
RECURSIVE BeforeSlash(_)
BeforeSlash(s) ==
  IF s = <<>> \/ s[1] = "/" THEN <<>> ELSE <<s[1]>> \o BeforeSlash(Tail(s))

\* "Map AI category to our list": the first option whose part before "/"
\* is in ai_cat, both lower-cased; "Other" when none is
MatchCategory(ai_cat) ==
  IF \E i \in 1..Len(FormCategories) :
       Contains(Lower(BeforeSlash(FormCategories[i])), Lower(ai_cat))
  THEN FormCategories[CHOOSE i \in 1..Len(FormCategories) :
         /\ Contains(Lower(BeforeSlash(FormCategories[i])), Lower(ai_cat))
         /\ \A j \in 1..(i - 1) :
              ~Contains(Lower(BeforeSlash(FormCategories[j])), Lower(ai_cat))]
  ELSE F_Other

\* datetime.strptime(s, "%Y-%m-%d"): NaT stands for the ValueError
Strptime(s) ==
  IF Len(s) = 10 /\ s[5] = "-" /\ s[8] = "-" THEN ParseDate(s, FALSE) ELSE NaT

\* "Update Form Values with AI findings" for the JSON data of a receipt
UpdateForm(state, data) ==
  [form_date |-> IF Strptime(data.Date).nat THEN state.form_date
                 ELSE [y |-> Strptime(data.Date).y, m |-> Strptime(data.Date).m,
                       d |-> Strptime(data.Date).d],
   form_amount |-> data.Amount,
   form_merchant |-> data.Merchant,
   form_category |-> MatchCategory(data.Category)]

----------------------------------------------------------------------------
(* Tax Center (pages/5_Tax_Center.py)                                      *)

\* CRA_MAP keys; the pictograph that starts a key is written :name:
K_Travel == <<":car:"," ","T","r","a","v","e","l","/","P","a","r","k","i","n","g">>
K_Medical == <<":hospital:"," ","M","e","d","i","c","a","l"," ","S","u","p","p","l","i","e","s">>
K_ProfFees == <<":scroll:"," ","P","r","o","f","e","s","s","i","o","n","a","l"," ","F","e","e","s","/","L","i","c","e","n","s","e","s">>
K_Education == <<":mortar_board:"," ","C","o","n","t","i","n","u","i","n","g"," ","E","d","u","c","a","t","i","o","n">>
K_Software == <<":computer:"," ","S","o","f","t","w","a","r","e","/","O","f","f","i","c","e">>
K_Meals == <<":bowl:"," ","M","e","a","l","s","/","E","n","t","e","r","t","a","i","n","m","e","n","t">>
K_Other == <<"O","t","h","e","r">>

CRA_MAP ==
  [k \in {K_Travel, K_Medical, K_ProfFees, K_Education, K_Software, K_Meals, K_Other} |->
     IF k = K_Travel THEN "Line 9281 - Motor vehicle expenses"
     ELSE IF k = K_Medical THEN "Line 8810 - Office stationery and supplies"
     ELSE IF k = K_ProfFees THEN "Line 8760 - Business taxes, licences and memberships"
     ELSE IF k = K_Education THEN "Line 8710 - Seminars/Conventions (or Tuition)"
     ELSE IF k = K_Software THEN "Line 8810 - Office stationery and supplies"
     ELSE IF k = K_Meals THEN "Line 8523 - Meals and entertainment (50%)"
     ELSE "Line 9270 - Other expenses"]

\* df_exp['Category'].map(CRA_MAP).fillna("Other"), for one category
CRALine(category) ==
  IF category \in DOMAIN CRA_MAP THEN CRA_MAP[category] ELSE "Other"

\* the fee of the London loop of get_combined_data, in cents:
\* row.get("Type of encounter", "") read by the exact header
TaxLondonFee(headers, cells) ==
  LET e == IndexOf(headers, H_TypeOfEncounter)
      t == Lower(IF e = 0 THEN <<>> ELSE cells[e])
  IN IF Contains(KwNewConsult, t) THEN 8500
     ELSE IF Contains(KwNonCts, t) THEN 6500
     ELSE IF Contains(KwFollowUp, t) THEN 6500
     ELSE 0

\* pd.DataFrame(columns=[...]) of an except branch: no row, and a
\* 'Date Object' column of dtype object
FallbackFrame == [state |-> "fallback", rows |-> <<>>]

\* part 1 of get_combined_data.  A sheet without records gives a frame
\* without columns, so df_lon[lon_date_col] raises KeyError inside the try,
\* as does a sheet with neither date column: the except branch answers both.
TaxLondon(headers, rows) ==
  IF rows = <<>> \/ date_col(headers) \notin Range(headers) THEN FallbackFrame
  ELSE LET di == IndexOf(headers, date_col(headers))
       IN [state |-> "loaded",
           rows |-> [i \in 1..Len(rows) |->
                       [cells |-> rows[i],
                        dt |-> ParseDate(rows[i][di], TRUE),
                        Amount |-> Num(TaxLondonFee(headers, rows[i])),
                        Source |-> "London (Fees)"]]]

\* part 2 of get_combined_data: the Payments tab (its header row is there)
TaxKitchener(headers, rows) ==
  LET di == IndexOf(headers, H_Date)
      ai == IndexOf(headers, H_Amount)
  IN IF di = 0 \/ ai = 0 THEN FallbackFrame
     ELSE [state |-> "loaded",
           rows |-> [i \in 1..Len(rows) |->
                       [cells |-> rows[i],
                        dt |-> ParseDate(rows[i][di], TRUE),
                        Amount |-> CleanAmount(rows[i][ai]),
                        Source |-> "Kitchener (Paid)"]]]

\* one entry of structured_exp: "Mapping for Expenses Form (A=Time, B=Date,
\* C=Category, D=Amount)"
TaxExpenseRecord(row) ==
  LET r == Pad(row, 4)
  IN [cells |-> row, Date |-> r[2], Category |-> r[3], Amount |-> r[4]]

\* part 3 of get_combined_data.  Without a data row structured_exp is empty
\* and pd.DataFrame([]) has no column at all.
TaxExpenses(rows) ==
  IF rows = <<>> THEN [state |-> "nocolumns", rows |-> <<>>]
  ELSE [state |-> "loaded",
        rows |-> [i \in 1..Len(rows) |->
                    [cells |-> rows[i],
                     Date |-> TaxExpenseRecord(rows[i]).Date,
                     Category |-> TaxExpenseRecord(rows[i]).Category,
                     dt |-> ParseDate(TaxExpenseRecord(rows[i]).Date, FALSE),
                     Amount |-> CleanAmount(TaxExpenseRecord(rows[i]).Amount)]]]

\* df[df['Date Object'].dt.year == selected_year]: a NaT has no year
YearRows(frame, selected_year) ==
  SelectSeq(frame.rows, LAMBDA r : ~r.dt.nat /\ r.dt.y = selected_year)

\* what the year filter of main raises on a frame, "none" when it does not:
\* .dt on a column of dtype object is an AttributeError, a missing
\* 'Date Object' column a KeyError
FilterError(frame) ==
  IF frame.state = "fallback" THEN "AttributeError"
  ELSE IF frame.state = "nocolumns" THEN "KeyError"
  ELSE "none"

\* df_exp.groupby('CRA Line')['Amount'].sum(): tax line -> subtotal
cra_summary(exp_rows) ==
  [line \in {CRALine(exp_rows[i].Category) : i \in 1..Len(exp_rows)} |->
     SumAmount(SelectSeq(exp_rows, LAMBDA r : CRALine(r.Category) = line))]

\* a faulty variant of TaxFigures: the estimated tax is taken on the gross income
TaxFigures_TaxOnGross(london_total, kitchener_total, total_expenses, tax_rate) ==
  LET gross_income == london_total + kitchener_total
      net_income == gross_income - total_expenses
  IN [gross_income |-> gross_income,
      net_income |-> net_income,
      estimated_tax |-> Rat(gross_income * tax_rate, 100),
      safe_to_spend |-> Rat(net_income * 100 - gross_income * tax_rate, 100)]

\* "CALCULATIONS" and "TAX ESTIMATOR": estimated_tax = net_income *
\* (tax_rate / 100), safe_to_spend = net_income - estimated_tax, as fractions
\* of a cent
TaxFigures(london_total, kitchener_total, total_expenses, tax_rate) ==
  LET gross_income == london_total + kitchener_total
      net_income == gross_income - total_expenses
  IN [gross_income |-> gross_income,
      net_income |-> net_income,
      estimated_tax |-> Rat(net_income * tax_rate, 100),
      safe_to_spend |-> Rat(net_income * 100 - net_income * tax_rate, 100)]

\* a run whose year filter raised: the frames are loaded, nothing is computed
TaxRaised(df_lon, df_kit, df_exp, err) ==
  [page |-> "tax", error |-> err, df_lon |-> df_lon, df_kit |-> df_kit, df_exp |-> df_exp]

\* main of the Tax Center: the outcomes of one run, for the years and rates
\* the sidebar offers.  The three filters run in the order London,
\* Kitchener, expenses, outside any try.
TaxCenter(lon_headers, lon_rows, kit_headers, kit_rows, exp_rows, clock, rates) ==
  LET df_lon == TaxLondon(lon_headers, lon_rows)
      df_kit == TaxKitchener(kit_headers, kit_rows)
      df_exp == TaxExpenses(exp_rows)
      err == IF FilterError(df_lon) # "none" THEN FilterError(df_lon)
             ELSE IF FilterError(df_kit) # "none" THEN FilterError(df_kit)
             ELSE FilterError(df_exp)
  IN IF err # "none" THEN {TaxRaised(df_lon, df_kit, df_exp, err)}
     ELSE { LET lon_year == YearRows(df_lon, c[1])
                kit_year == YearRows(df_kit, c[1])
                exp_year == YearRows(df_exp, c[1])
                london_total == SumAmount(lon_year)
                kitchener_total == SumAmount(kit_year)
                total_expenses == SumAmount(exp_year)
                f == TaxFigures(london_total, kitchener_total, total_expenses, c[2])
            IN [page |-> "tax", error |-> "none",
                df_lon |-> df_lon, df_kit |-> df_kit, df_exp |-> df_exp,
                selected_year |-> c[1],
                tax_rate |-> c[2],
                lon_year |-> lon_year,
                kit_year |-> kit_year,
                exp_year |-> exp_year,
                london_total |-> london_total,
                kitchener_total |-> kitchener_total,
                gross_income |-> f.gross_income,
                total_expenses |-> total_expenses,
                net_income |-> f.net_income,
                estimated_tax |-> f.estimated_tax,
                safe_to_spend |-> f.safe_to_spend,
                cra_shown |-> exp_year # <<>>,
                cra_rows |-> [i \in 1..Len(exp_year) |->
                                [Category |-> exp_year[i].Category,
                                 Amount |-> exp_year[i].Amount,
                                 CRA_Line |-> CRALine(exp_year[i].Category)]],
                cra_summary |-> cra_summary(exp_year)] :
            c \in {clock.y, clock.y - 1, clock.y - 2} \X rates }

----------------------------------------------------------------------------
(* Sheets, navigation and page runs.  A page is opened from the home page  *)
(* and runs its main once; rows reach the sheets between visits, so what a *)
(* page shows was computed from the sheets as they are.                    *)

Home == [page |-> "home"]

SheetRows == Len(lonRows) + Len(kitRows) + Len(expRows)

\* "Back to Home": st.switch_page("Home.py")
BackToHome ==
  /\ view.page # "home"
  /\ view' = Home
  /\ UNCHANGED <<now, lonHeaders, lonRows, kitRows, expRows, session_state>>

\* a response row arrives in the London sheet
AppendLondonRow(rowset, max) ==
  /\ view.page = "home"
  /\ SheetRows < max
  /\ \E r \in rowset : lonRows' = Append(lonRows, r)
  /\ UNCHANGED <<now, lonHeaders, kitRows, expRows, view, session_state>>

\* a payment row is entered in the Payments tab
AppendKitchenerRow(rowset, max) ==
  /\ view.page = "home"
  /\ SheetRows < max
  /\ \E r \in rowset : kitRows' = Append(kitRows, r)
  /\ UNCHANGED <<now, lonHeaders, lonRows, expRows, view, session_state>>

\* a row is entered in the Expenses_Form tab
AppendExpenseRow(rowset, max) ==
  /\ view.page = "home"
  /\ SheetRows < max
  /\ \E r \in rowset : expRows' = Append(expRows, r)
  /\ UNCHANGED <<now, lonHeaders, lonRows, kitRows, view, session_state>>

\* the London Tracker is opened and runs main with the sidebar choices
LondonTrackerRun(goals, durations) ==
  /\ view.page = "home"
  /\ view' \in LondonTracker(lonHeaders, lonRows, now, goals, durations)
  /\ UNCHANGED <<now, lonHeaders, lonRows, kitRows, expRows, session_state>>

\* the Kitchener page is opened and runs main with the sidebar choices
KitchenerFinanceRun(goals, durations) ==
  /\ view.page = "home"
  /\ view' \in KitchenerFinance(KitchenerHeaders, kitRows, now, goals, durations)
  /\ UNCHANGED <<now, lonHeaders, lonRows, kitRows, expRows, session_state>>

\* the Expense Tracker is opened and renders its table
ExpenseTrackerRun ==
  /\ view.page = "home"
  /\ view' \in ExpenseTracker(expRows)
  /\ UNCHANGED <<now, lonHeaders, lonRows, kitRows, expRows, session_state>>

\* the Tax Center is opened and runs main with the sidebar choices
TaxCenterRun(rates) ==
  /\ view.page = "home"
  /\ view' \in TaxCenter(lonHeaders, lonRows, KitchenerHeaders, kitRows, expRows, now, rates)
  /\ UNCHANGED <<now, lonHeaders, lonRows, kitRows, expRows, session_state>>

\* lines 99-101 of the London Tracker (73-75 of the Kitchener page) on a
\* Month_Name column: unique(), then the sort
MonthSortRun(columns) ==
  /\ view.page = "home"
  /\ \E c \in columns :
       view' = [page |-> "months", Month_Name |-> c, available_months |-> SortMonths(Unique(c))]
  /\ UNCHANGED <<now, lonHeaders, lonRows, kitRows, expRows, session_state>>

\* "Extract Data with AI": the receipt's data reach the draft values and the
\* form below is pre-filled with them
ExtractReceipt(receipts) ==
  /\ view.page = "expense"
  /\ \E data \in receipts : session_state' = UpdateForm(session_state, data)
  /\ UNCHANGED <<now, lonHeaders, lonRows, kitRows, expRows, view>>

\* "Save Expense": the submit handler of the form with the values entered.
\* An accepted amount appends the row, resets form_amount, clears the cache
\* and reruns the page over the sheet as it is then; any other only warns.
SubmitExpenseForm(inputs, max) ==
  /\ view.page = "expense"
  /\ \E in \in inputs :
       IF Accepts(in.amount)
       THEN /\ SheetRows < max
            /\ expRows' = add_expense(expRows, now, in.exp_date, in.category, in.amount,
                                      in.location, ReceiptNote(in.description, in.uploaded))
            /\ session_state' = [session_state EXCEPT !.form_amount = 0]
            /\ view' \in ExpenseTracker(expRows')
       ELSE /\ view' = Warned(view, in.amount)
            /\ UNCHANGED <<expRows, session_state>>
  /\ UNCHANGED <<now, lonHeaders, lonRows, kitRows>>

----------------------------------------------------------------------------
(* Inputs of the model                                                     *)

\* rows of the sheet of a one-sheet specification
MaxRows == 2

\* rows of all sheets together in a specification over several sheets
MaxLedger == 3

\* datetime.now() of the session
NowSet == {[y |-> 2024, m |-> 6, d |-> 15], [y |-> 2025, m |-> 1, d |-> 10]}

\* "Monthly Goal ($)" entries, in cents: 0, $100, the default $10,000
GoalSet == {0, 10000, 1000000}
DefaultGoal == {1000000}

\* "Select Duration": Custom = 1, and 3
DurationSet == {1, 3}

\* "Est. Tax Rate (%)"
RateSet == {15, 30}

H_Notes == <<"N","o","t","e","s">>
T_Ann == <<"A","n","n">>
T_Bob == <<"B","o","b">>
T_Blank == <<" "," ">>
T_Empty == <<>>
T_2023_03_15 == <<"2","0","2","3","-","0","3","-","1","5">>
T_2023_05_02 == <<"2","0","2","3","-","0","5","-","0","2">>
T_2023_11_20 == <<"2","0","2","3","-","1","1","-","2","0">>
T_2024_03_01 == <<"2","0","2","4","-","0","3","-","0","1">>
T_2024_03_05 == <<"2","0","2","4","-","0","3","-","0","5">>
T_2024_03_20 == <<"2","0","2","4","-","0","3","-","2","0"," ","0","9",":","3","0",":","0","0">>
T_2024_05_02 == <<"2","0","2","4","-","0","5","-","0","2">>
T_ts_2024_05_02 == <<"2","0","2","4","-","0","5","-","0","2"," ","1","0",":","0","0",":","0","0">>
T_05_06_2024 == <<"0","5","/","0","6","/","2","0","2","4">>
T_05_01_2024 == <<"0","5","/","0","1","/","2","0","2","4">>
T_NotADate == <<"n","/","a">>
T_NewConsult == <<"N","e","w"," ","C","o","n","s","u","l","t">>
T_FollowUp == <<"F","o","l","l","o","w"," ","U","p">>
T_NEWCONSULT_nonCts == <<"N","E","W"," ","C","O","N","S","U","L","T"," ","-"," ","n","o","n"," ","c","t","s">>
T_NonCtsFollowUp == <<"N","o","n"," ","C","T","S"," ","f","o","l","l","o","w"," ","u","p">>
T_followUpNewConsult == <<"f","o","l","l","o","w"," ","u","p",","," ","n","e","w"," ","c","o","n","s","u","l","t">>
T_PhoneCall == <<"P","h","o","n","e"," ","c","a","l","l">>
T_newConsul == <<"n","e","w"," ","c","o","n","s","u","l">>
T_DrTripic == <<"D","r","."," ","T","R","I","P","I","C">>
T_DrCartagena == <<"d","r"," ","c","a","r","t","a","g","e","n","a">>
T_100 == <<"$","1","0","0",".","0","0">>
T_1234_50 == <<"$","1",",","2","3","4",".","5","0">>
T_abc == <<"a","b","c">>
T_neg50 == <<"-","5","0">>
T_0 == <<"0">>
T_45_00 == <<"4","5",".","0","0">>
T_20 == <<"2","0">>
T_Travel == <<"T","r","a","v","e","l">>
T_GasStation == <<"G","a","s"," ","s","t","a","t","i","o","n">>
T_Gifts == <<"G","i","f","t","s">>
T_London == <<"L","o","n","d","o","n">>
T_receipt == <<"r","e","c","e","i","p","t",".","j","p","g">>

\* header rows of the London sheet: <<date, name, descriptor>> columns
LondonHeaders == <<H_Timestamp, H_name, H_TypeOfEncounter>>
NoDescriptorHeaders == <<H_Date, H_Name, H_Notes>>

\* London rows for the windows: four dates (one on the 15th, one of the
\* year before, one written day first), two encounter types, a row with a
\* blank name and a row whose date is no date
WindowRows ==
  ({T_2023_03_15, T_2024_03_01, T_2024_03_20, T_05_06_2024} \X {T_Ann} \X {T_NewConsult, T_FollowUp})
  \cup {<<T_2024_03_01, T_Blank, T_NewConsult>>, <<T_NotADate, T_Ann, T_FollowUp>>}

\* London rows for the fee: one date, descriptors in several casings, with
\* two keywords, with none, with a near miss, empty
FeeRows ==
  {T_2024_03_01} \X {T_Ann} \X
  {T_NewConsult, T_NEWCONSULT_nonCts, T_NonCtsFollowUp, T_FollowUp,
   T_followUpNewConsult, T_PhoneCall, T_newConsul, T_Empty}

\* the expense rows of the layout scenario
OldLayoutRow == <<T_05_01_2024, T_Travel, T_45_00, T_GasStation>>
NewLayoutRow == <<T_ts_2024_05_02, T_2024_05_02, T_Travel, T_45_00, T_London, T_receipt>>

\* a row as the expense form appends it
FormRow(date, category, amount) ==
  <<T_ts_2024_05_02, date, category, amount, T_London, T_receipt>>

\* expense rows for layouts and amount cells
LayoutRows ==
  {OldLayoutRow, NewLayoutRow,
   FormRow(T_2024_05_02, F_Meals, T_1234_50),
   FormRow(T_2024_05_02, F_Meals, T_abc),
   FormRow(T_2024_05_02, F_Meals, T_0)}

\* payment rows for amount cells
AmountRows ==
  {<<T_2024_03_05, T_Bob, T_1234_50, T_DrTripic>>,
   <<T_2024_03_05, T_Bob, T_abc, T_DrTripic>>,
   <<T_2024_03_05, T_Bob, T_0, T_DrCartagena>>}

\* the ledger of the Tax Center: fees and payments of two years, expenses in
\* form categories, in a category of CRA_MAP and in an unknown one
LedgerLondonRows ==
  {<<T_2024_03_01, T_Ann, T_NewConsult>>, <<T_2023_03_15, T_Ann, T_FollowUp>>}
LedgerKitchenerRows ==
  {<<T_2024_03_05, T_Bob, T_100, T_DrTripic>>,
   <<T_2023_11_20, T_Bob, T_1234_50, T_DrCartagena>>,
   <<T_2024_03_05, T_Bob, T_abc, T_DrTripic>>}
LedgerExpenseRows ==
  {FormRow(T_2024_05_02, F_Travel, T_45_00),
   FormRow(T_2024_05_02, F_Other, T_20),
   FormRow(T_2023_05_02, T_Gifts, T_20),
   FormRow(T_2024_05_02, K_Travel, T_45_00)}

\* payments for the goal: a refund among them
GoalKitchenerRows ==
  {<<T_2024_03_05, T_Bob, T_100, T_DrTripic>>,
   <<T_2024_03_05, T_Bob, T_neg50, T_DrCartagena>>,
   <<T_05_01_2024, T_Bob, T_1234_50, T_DrCartagena>>}
GoalLondonRows ==
  {<<T_2024_03_01, T_Ann, T_NewConsult>>, <<T_2024_03_20, T_Ann, T_FollowUp>>}

\* Month_Name columns: English month names and names month_order does not
\* hold (another locale's, a misspelt one)
MaxMonths == 3
MonthStrings == {"March", "June", "December", "April", "mars", "Smarch"}
MonthColumns == UNION {[1..n -> MonthStrings] : n \in 0..MaxMonths}

\* a London sheet whose descriptor column has another header text
H_EncounterType == <<"E","n","c","o","u","n","t","e","r"," ","T","y","p","e">>
KeywordHeaders == <<H_Timestamp, H_Name, H_EncounterType>>

\* what a user enters in the expense form, and what a receipt yields
T_meals == <<"m","e","a","l","s">>
FormInputs ==
  [exp_date : {Timestamp(2024, 5, 2)},
   category : {F_Travel},
   amount : {0, 1250, 4500},
   location : {T_London},
   description : {T_GasStation},
   uploaded : BOOLEAN]
ReceiptData ==
  {[Date |-> T_2024_05_02, Amount |-> 1250, Merchant |-> T_GasStation, Category |-> T_meals],
   [Date |-> T_NotADate, Amount |-> 0, Merchant |-> T_Empty, Category |-> T_Gifts]}

----------------------------------------------------------------------------
(* Specifications                                                          *)

InitSheets ==
  /\ now \in NowSet
  /\ lonRows = <<>>
  /\ kitRows = <<>>
  /\ expRows = <<>>
  /\ view = Home
  /\ session_state = FormDefaults(now)

\* the London Tracker over a growing sheet, every window and goal
InitLondon ==
  /\ lonHeaders = LondonHeaders
  /\ InitSheets

NextLondon ==
  \/ AppendLondonRow(WindowRows, MaxRows)
  \/ LondonTrackerRun(GoalSet, DurationSet)
  \/ BackToHome

SpecLondon == InitLondon /\ [][NextLondon]_vars

\* the two fee derivations over the same London sheet; the expense sheet
\* holds one row, so that the Tax Center's filters pass
InitFee ==
  /\ now \in NowSet
  /\ lonHeaders \in {LondonHeaders, NoDescriptorHeaders}
  /\ lonRows = <<>>
  /\ kitRows = <<>>
  /\ expRows = <<NewLayoutRow>>
  /\ view = Home
  /\ session_state = FormDefaults(now)

NextFee ==
  \/ AppendLondonRow(FeeRows, MaxLedger)
  \/ LondonTrackerRun(DefaultGoal, {3})
  \/ TaxCenterRun({30})
  \/ BackToHome

SpecFee == InitFee /\ [][NextFee]_vars

\* the Tax Center over a ledger of three sheets
InitTax ==
  /\ lonHeaders = LondonHeaders
  /\ InitSheets

NextTax ==
  \/ AppendLondonRow(LedgerLondonRows, MaxLedger)
  \/ AppendKitchenerRow(LedgerKitchenerRows, MaxLedger)
  \/ AppendExpenseRow(LedgerExpenseRows, MaxLedger)
  \/ TaxCenterRun(RateSet)
  \/ LondonTrackerRun(DefaultGoal, {3})
  \/ KitchenerFinanceRun(DefaultGoal, {3})
  \/ ExpenseTrackerRun
  \/ BackToHome

SpecTax == InitTax /\ [][NextTax]_vars

\* the pages that read amount cells and expense rows; the London sheet holds
\* one row, so that the Tax Center's filters pass
InitExpense ==
  /\ now \in NowSet
  /\ lonHeaders = LondonHeaders
  /\ lonRows = <<<<T_2024_03_01, T_Ann, T_NewConsult>>>>
  /\ kitRows = <<>>
  /\ expRows = <<>>
  /\ view = Home
  /\ session_state = FormDefaults(now)

NextExpense ==
  \/ AppendExpenseRow(LayoutRows, MaxLedger)
  \/ AppendKitchenerRow(AmountRows, MaxLedger)
  \/ ExpenseTrackerRun
  \/ KitchenerFinanceRun(DefaultGoal, {3})
  \/ TaxCenterRun({30})
  \/ BackToHome

SpecExpense == InitExpense /\ [][NextExpense]_vars

\* the goal tracker of the London and Kitchener pages
InitGoal ==
  /\ lonHeaders = LondonHeaders
  /\ InitSheets

NextGoal ==
  \/ AppendLondonRow(GoalLondonRows, MaxLedger)
  \/ AppendKitchenerRow(GoalKitchenerRows, MaxLedger)
  \/ LondonTrackerRun(GoalSet, DurationSet)
  \/ KitchenerFinanceRun(GoalSet, DurationSet)
  \/ BackToHome

SpecGoal == InitGoal /\ [][NextGoal]_vars

\* the month sort on its own
InitMonths == InitSheets /\ lonHeaders = LondonHeaders
NextMonths == MonthSortRun(MonthColumns) \/ BackToHome
SpecMonths == InitMonths /\ [][NextMonths]_vars

\* the London income as both pages report it: the London Tracker and the
\* Tax Center over the same growing sheet
InitIncome ==
  /\ lonHeaders = LondonHeaders
  /\ now \in NowSet
  /\ lonRows = <<>>
  /\ kitRows = <<>>
  /\ expRows = <<NewLayoutRow>>
  /\ view = Home
  /\ session_state = FormDefaults(now)
NextIncome ==
  \/ AppendLondonRow(WindowRows, MaxLedger)
  \/ LondonTrackerRun(DefaultGoal, DurationSet)
  \/ TaxCenterRun({30})
  \/ BackToHome
SpecIncome == InitIncome /\ [][NextIncome]_vars

\* the two fee derivations over sheets with differing header rows
InitHeaders ==
  /\ lonHeaders \in {LondonHeaders, KeywordHeaders, NoDescriptorHeaders}
  /\ now \in NowSet
  /\ lonRows = <<>>
  /\ kitRows = <<>>
  /\ expRows = <<NewLayoutRow>>
  /\ view = Home
  /\ session_state = FormDefaults(now)
NextHeaders ==
  \/ AppendLondonRow(FeeRows, MaxLedger)
  \/ LondonTrackerRun(DefaultGoal, {3})
  \/ TaxCenterRun({30})
  \/ BackToHome
SpecHeaders == InitHeaders /\ [][NextHeaders]_vars

\* the expense form: receipts scanned, expenses submitted, the page rerun
InitForm == InitSheets /\ lonHeaders = LondonHeaders
NextForm ==
  \/ ExpenseTrackerRun
  \/ ExtractReceipt(ReceiptData)
  \/ SubmitExpenseForm(FormInputs, MaxLedger)
  \/ BackToHome
SpecForm == InitForm /\ [][NextForm]_vars

----------------------------------------------------------------------------
(* Claims                                                                  *)

\* the London Tracker run on screen has a cleaned frame
LondonFrameShown ==
  view.page = "london" /\ ~view.no_data /\ view.error \in {"none", "UnboundLocalError"}

\* the London Tracker run on screen rendered every metric
LondonCompleted == view.page = "london" /\ ~view.no_data /\ view.error = "none"

\* the Tax Center run on screen loaded the London sheet
TaxLondonLoaded == view.page = "tax" /\ view.df_lon.state = "loaded"

\* the descriptor cell of a London row of the model's sheets (third column)
DescriptorOf(cells) == Lower(cells[3])

\* the fee the ordered keyword list gives a lower-cased descriptor
KeywordFee(t) ==
  IF Contains(KwNewConsult, t) THEN 8500
  ELSE IF Contains(KwNonCts, t) \/ Contains(KwFollowUp, t) THEN 6500
  ELSE 0

\* C1: in both derivations the fee of a descriptor is that of the first
\* keyword it contains, in the order "new consult" (85.00), "non cts" (65.00),
\* "follow up" (65.00), whatever the casing and the surrounding text: with
\* "new consult" it is 85.00 also when another keyword occurs as well.
C1_FirstKeywordDecidesFee ==
  /\ (LondonFrameShown /\ encounter_col(lonHeaders) = 3) =>
       \A i \in 1..Len(view.df) :
         /\ view.df[i].Fee = KeywordFee(DescriptorOf(view.df[i].cells))
         /\ Contains(KwNewConsult, DescriptorOf(view.df[i].cells)) => view.df[i].Fee = 8500
  /\ (TaxLondonLoaded /\ IndexOf(lonHeaders, H_TypeOfEncounter) = 3) =>
       \A i \in 1..Len(view.df_lon.rows) :
         /\ view.df_lon.rows[i].Amount = Num(KeywordFee(DescriptorOf(view.df_lon.rows[i].cells)))
         /\ Contains(KwNewConsult, DescriptorOf(view.df_lon.rows[i].cells)) =>
              view.df_lon.rows[i].Amount = Num(8500)

\* C1 witness: the London Tracker shows a row whose descriptor holds "new
\* consult" in capitals next to "non cts", billed 85.00
C1_Witness ==
  /\ LondonFrameShown
  /\ \E i \in 1..Len(view.df) :
       view.df[i].cells[3] = T_NEWCONSULT_nonCts /\ view.df[i].Fee = 8500

\* the frame rows of a year with a parsed date
RowsOfYear(rows, y) == {i \in 1..Len(rows) : ~rows[i].dt.nat /\ rows[i].dt.y = y}

\* the sum of the parsed amounts of the rows at the indices idx
RECURSIVE AmountOver(_, _)
AmountOver(rows, idx) ==
  IF idx = {} THEN 0
  ELSE LET i == CHOOSE j \in idx : TRUE
       IN (IF rows[i].Amount.nan THEN 0 ELSE rows[i].Amount.v) + AmountOver(rows, idx \ {i})

ShownAmounts ==
  IF view.page = "expense"
  THEN {<<Pad(view.df[j].cells, 6)[4], view.df[j].Amount>> : j \in 1..Len(view.df)}
  ELSE IF view.page = "kitchener" /\ ~view.no_data
  THEN {<<view.df[j].cells[3], view.df[j].Amount>> : j \in 1..Len(view.df)}
  ELSE IF view.page = "tax"
  THEN {<<view.df_kit.rows[j].cells[3], view.df_kit.rows[j].Amount>> :
           j \in 1..Len(view.df_kit.rows)}
       \cup {<<Pad(view.df_exp.rows[j].cells, 4)[4], view.df_exp.rows[j].Amount>> :
           j \in 1..Len(view.df_exp.rows)}
  ELSE {}

\* C4 as claimed: in every page "$1,234.50" is read as 1234.50 and a cell
\* that does not parse ("abc") is the unparseable marker, never an amount of 0
C4_UnparseableAmountIsMarked ==
  \A p \in ShownAmounts :
    /\ p[1] = T_1234_50 => p[2] = Num(123450)
    /\ p[1] = T_abc => p[2].nan

\* C5 as claimed: over an empty record set (a sheet without data rows, a
\* window or a year that selects no record) no page raises and every
\* aggregate is zero: totals, counts, group subtotals, the average per
\* record, and the date range reads "no data"
C5_EmptySetsDegradeToZero ==
  /\ (view.page = "tax" /\ (lonRows = <<>> \/ kitRows = <<>> \/ expRows = <<>>)) =>
       view.error = "none"
  /\ (view.page = "tax" /\ view.error = "none") =>
       /\ view.lon_year = <<>> => view.london_total = 0
       /\ view.kit_year = <<>> => view.kitchener_total = 0
       /\ view.exp_year = <<>> => view.total_expenses = 0 /\ DOMAIN view.cra_summary = {}
  /\ (view.page = "london" /\ lonRows = <<>>) => view.error = "none"
  /\ view.page = "london" => view.error # "ValueError"
  /\ (LondonFrameShown /\ view.display_df = <<>>) =>
       /\ view.error = "none"
       /\ view.total_period_income = 0 /\ view.total_patients = 0
       /\ view.avg_per_patient = [shown |-> TRUE, value |-> Rat(0, 1)]
  /\ (view.page = "kitchener" /\ ~view.no_data /\ view.display_df = <<>>) =>
       /\ view.error = "none"
       /\ view.total_income = 0 /\ view.tripic_total = 0 /\ view.cartagena_total = 0
       /\ view.date_range.label = "-"
  /\ (view.page = "expense" /\ expRows = <<>>) => view.error = "none"

\* C6: the year-over-year delta is (current - prior) / prior x 100 when the
\* prior year's total is strictly positive, and there is no delta when it is
\* 0 (prior 0, current 85.00 included): never a quotient by zero.
C6_YoYDeltaOnlyOverPositivePrior ==
  (LondonCompleted /\ view.selected_view = "Current Year (Overview)") =>
    LET current == SumFee(SelectSeq(view.df, LAMBDA r : r.dt.y = now.y))
        prior == SumFee(SelectSeq(view.df, LAMBDA r : r.dt.y = now.y - 1))
    IN /\ prior > 0 =>
            /\ ~view.metric_delta.none
            /\ view.metric_delta.pct.den = prior
            /\ view.metric_delta.pct.num = (current - prior) * 100
       /\ prior = 0 => view.metric_delta.none /\ view.metric_delta.pct = NoRat
       /\ ~view.metric_delta.none => view.metric_delta.pct.den > 0

\* C6 witness: the full-year view with no fee in the prior year and fees in
\* the current one shows no delta
C6_Witness ==
  /\ LondonCompleted /\ view.selected_view = "Current Year (Overview)"
  /\ view.total_period_income > 0
  /\ \A i \in 1..Len(view.df) : view.df[i].dt.y # now.y - 1
  /\ view.metric_delta.none

\* C6 witness of the computed side: a prior-year total of 85.00 and a
\* current-year total of 65.00 give the delta -2000 x 100 / 8500
C6_WitnessDelta ==
  /\ LondonCompleted /\ view.selected_view = "Current Year (Overview)"
  /\ ~view.metric_delta.none
  /\ view.metric_delta.pct = Rat(-200000, 8500)

\* the category the expense form saves -> the CRA_MAP key that names it
IntendedKey(category) ==
  IF category = F_Travel THEN K_Travel
  ELSE IF category = F_Medical THEN K_Medical
  ELSE IF category = F_ProfFees THEN K_ProfFees
  ELSE IF category = F_Education THEN K_Education
  ELSE IF category = F_Office THEN K_Software
  ELSE IF category = F_Meals THEN K_Meals
  ELSE IF category \in DOMAIN CRA_MAP THEN category
  ELSE K_Other

\* C7 as claimed: every expense record's tax line is the table's value for
\* its category, a category outside the table gets the line of "Other", so
\* that the summary has one "Other expenses" subtotal, and a category of the
\* expense form gets its own line
C7_TaxLineOfEveryCategory ==
  (view.page = "tax" /\ view.error = "none" /\ view.cra_shown) =>
    /\ \A i \in 1..Len(view.cra_rows) :
         view.cra_rows[i].CRA_Line = CRA_MAP[IntendedKey(view.cra_rows[i].Category)]
    /\ DOMAIN view.cra_summary \subseteq {CRA_MAP[k] : k \in DOMAIN CRA_MAP}

\* an encounter row matched no keyword in the London Tracker's derivation
LondonUnmatched(cells) ==
  \/ encounter_col(lonHeaders) = 0
  \/ KeywordFee(Lower(cells[encounter_col(lonHeaders)])) = 0

\* an encounter row matched no keyword in the Tax Center's derivation
TaxUnmatched(cells) ==
  \/ IndexOf(lonHeaders, H_TypeOfEncounter) = 0
  \/ KeywordFee(Lower(cells[IndexOf(lonHeaders, H_TypeOfEncounter)])) = 0

Occurrences(df, r) == Cardinality({i \in 1..Len(df) : df[i] = r})

\* C9: in a specific-month window every record is in exactly one pay period,
\* the first when its day is <= 15 and the second otherwise, so the periods'
\* totals add up to the month's total and their counts to the patient count.
C9_PayPeriodsPartitionTheMonth ==
  LondonCompleted =>
    /\ view.periods_shown <=> view.selected_view \in Range(month_order)
    /\ view.periods_shown =>
         /\ \A i \in 1..Len(view.display_df) :
              LET r == view.display_df[i] IN
              IF r.dt.d <= 15
              THEN /\ Occurrences(view.period_1, r) = Occurrences(view.display_df, r)
                   /\ Occurrences(view.period_2, r) = 0
              ELSE /\ Occurrences(view.period_2, r) = Occurrences(view.display_df, r)
                   /\ Occurrences(view.period_1, r) = 0
         /\ \A i \in 1..Len(view.period_1) : view.period_1[i].dt.d <= 15
         /\ \A i \in 1..Len(view.period_2) : view.period_2[i].dt.d > 15
         /\ SumFee(view.period_1) + SumFee(view.period_2) = view.total_period_income
         /\ Len(view.period_1) + Len(view.period_2) = view.total_patients

\* C9 witness: March with a New Consult on the 1st and a Follow Up on the
\* 20th: 85.00 / 1 patient, 65.00 / 1 patient, month total 150.00
C9_Witness ==
  /\ LondonCompleted /\ view.periods_shown /\ view.selected_view = "March"
  /\ Len(view.period_1) = 1 /\ view.period_1[1].dt.d = 1 /\ SumFee(view.period_1) = 8500
  /\ Len(view.period_2) = 1 /\ view.period_2[1].dt.d = 20 /\ SumFee(view.period_2) = 6500
  /\ view.total_period_income = 15000 /\ view.total_patients = 2

\* C9 witness of the boundary: a record of the 15th is in the first period
C9_WitnessBoundary ==
  /\ LondonCompleted /\ view.periods_shown
  /\ \E i \in 1..Len(view.period_1) : view.period_1[i].dt.d = 15

\* C10 as claimed: the goal progress is min(total / target, 1) with target =
\* monthly goal x N (trailing N months), x 12 (full year), x 1 (one month);
\* it is 1 only when total >= target, total / target otherwise, and always
\* within [0, 1]
C10_GoalProgressCappedInUnitInterval ==
  (view.page \in {"london", "kitchener"} /\ ~view.no_data /\ view.error # "KeyError"
     /\ view.error # "ValueError") =>
    LET total == IF view.page = "london" THEN view.total_period_income ELSE view.total_income
        target == view.monthly_goal *
                    (IF view.selected_view = "Last X Months" THEN view.months_back
                     ELSE IF view.selected_view = "Current Year (Overview)" THEN 12
                     ELSE 1)
    IN /\ view.target_income = target
       /\ view.progress.shown =>
            /\ view.progress.value.den > 0
            /\ total >= target => view.progress.value.num = view.progress.value.den
            /\ total < target => view.progress.value = Rat(total, target)
            /\ 0 <= view.progress.value.num
            /\ view.progress.value.num <= view.progress.value.den

\* C11 as claimed: in the full-year view the monthly average is the total of
\* the records of the selected year over the divisor, the current month
\* number when the selected year is the present year and 12 otherwise; the
\* records summed are those of the year the divisor refers to
C11_FullYearAverageOverSelectedYear ==
  /\ (LondonCompleted /\ view.selected_view = "Current Year (Overview)") =>
       LET of_year == SelectSeq(view.df, LAMBDA r : r.dt.y = view.selected_year)
           divisor == IF view.selected_year = now.y THEN now.m ELSE 12
       IN /\ view.display_df = of_year
          /\ view.monthly_avg = [shown |-> TRUE, value |-> Rat(SumFee(of_year), divisor)]
  /\ (view.page = "kitchener" /\ ~view.no_data
        /\ view.selected_view = "Current Year (Overview)") =>
       LET of_year == SelectSeq(view.df, LAMBDA r : r.dt.y = view.selected_year)
           divisor == IF view.selected_year = now.y THEN now.m ELSE 12
       IN /\ view.display_df = of_year
          /\ view.monthly_avg = [shown |-> TRUE, value |-> Rat(SumAmount(of_year), divisor)]

NamedRowsOfYear(y) ==
  {i \in 1..Len(lonRows) :
     /\ Strip(lonRows[i][2]) # <<>>
     /\ ~ParseDate(lonRows[i][1], TRUE).nat
     /\ ParseDate(lonRows[i][1], TRUE).y = y}

\* the keyword fees of the London rows at the indices idx
RECURSIVE FeeOver(_)
FeeOver(idx) ==
  IF idx = {} THEN 0
  ELSE LET i == CHOOSE j \in idx : TRUE
       IN KeywordFee(DescriptorOf(lonRows[i])) + FeeOver(idx \ {i})

\* C13 as claimed: a London row whose name is blank after trimming is in no
\* frame, total or count of the London Tracker nor in the Tax Center's
\* London rows and total, so both pages report, for a year, the fees of the
\* named rows of that year
C13_BlankNameRowsExcludedEverywhere ==
  /\ LondonFrameShown =>
       /\ \A i \in 1..Len(view.df) : Strip(view.df[i].cells[2]) # <<>>
       /\ view.selected_view = "Current Year (Overview)" =>
            /\ view.total_period_income = FeeOver(NamedRowsOfYear(now.y))
            /\ view.total_patients = Cardinality(NamedRowsOfYear(now.y))
  /\ (view.page = "tax" /\ view.error = "none") =>
       /\ \A i \in 1..Len(view.lon_year) : Strip(view.lon_year[i].cells[2]) # <<>>
       /\ view.london_total = FeeOver(NamedRowsOfYear(view.selected_year))

\* every parsed amount of the frame df is at least 0
NonNegative(df) == \A i \in 1..Len(df) : df[i].Amount.nan \/ df[i].Amount.v >= 0

\* C14 as claimed: every payment or expense amount that enters a total is
\* non-negative, in the Kitchener page, the Expense Tracker and the Tax
\* Center: a cell such as "-50" is admitted by none of them
C14_NoNegativeAmountInTotals ==
  /\ (view.page = "kitchener" /\ ~view.no_data) =>
       NonNegative(view.display_df) /\ view.total_income >= 0
  /\ (view.page = "expense" /\ ~view.no_data) =>
       NonNegative(view.year_df) /\ view.total_exp >= 0
  /\ (view.page = "tax" /\ view.error = "none") =>
       /\ NonNegative(view.kit_year) /\ view.kitchener_total >= 0
       /\ NonNegative(view.exp_year) /\ view.total_expenses >= 0

\* every record of the frame df is dated in the month named m of year y
AllInMonth(df, m, y) ==
  \A i \in 1..Len(df) : df[i].dt.y = y /\ month_order[df[i].dt.m] = m

\* C15 as claimed: with year Y selected, the view of month M counts only
\* records dated in month M of year Y, in its total, its patient count and
\* both pay periods; the same month of another year is not in it
C15_MonthWindowIsOneInterval ==
  /\ (LondonFrameShown /\ view.selected_view \in Range(month_order)) =>
       /\ AllInMonth(view.display_df, view.selected_view, view.selected_year)
       /\ AllInMonth(view.period_1, view.selected_view, view.selected_year)
       /\ AllInMonth(view.period_2, view.selected_view, view.selected_year)
       /\ view.total_patients =
            Cardinality({i \in 1..Len(view.df) :
                           /\ view.df[i].dt.y = view.selected_year
                           /\ view.df[i].Month_Name = view.selected_view})
  /\ (view.page = "kitchener" /\ ~view.no_data /\ view.selected_view \in Range(month_order)) =>
       AllInMonth(view.display_df, view.selected_view, view.selected_year)

\* C16 as claimed: in every view of the London Tracker ("Last X Months",
\* the full year, a month) the delta is bound, to a value or to "absent",
\* when the metrics step reads it, and the step completes without raising
C16_DeltaBoundOnEveryPath ==
  LondonFrameShown => view.metric_delta.bound /\ view.error = "none"

\* the fee of a row when the descriptor column is looked up by keyword: the
\* first header containing "encounter" or "consult", in any casing
KeywordLookupFee(headers, cells) ==
  IF \E i \in 1..Len(headers) :
       Contains(KwEncounter, Lower(headers[i])) \/ Contains(KwConsult, Lower(headers[i]))
  THEN KeywordFee(Lower(cells[encounter_col(headers)]))
  ELSE 0

\* C17 as claimed: for every header set and row the Tax Center's London fee
\* and the London Tracker's fee are the same, the fee of the descriptor
\* found by the keyword lookup of the header
C17_FeeDerivationsAgree ==
  /\ LondonFrameShown =>
       \A i \in 1..Len(view.df) :
         view.df[i].Fee = KeywordLookupFee(lonHeaders, view.df[i].cells)
  /\ TaxLondonLoaded =>
       \A i \in 1..Len(view.df_lon.rows) :
         view.df_lon.rows[i].Amount = Num(KeywordLookupFee(lonHeaders, view.df_lon.rows[i].cells))

\* a step of the expense form: the page is on screen before and after
FormStep == view.page = "expense" /\ view'.page = "expense"

\* the parsed amount of an expense sheet row
RowAmount(row) == CleanAmount(Pad(row, 6)[4])

\* C18: a submission with an amount > 0 appends exactly one row, of that
\* positive amount, and resets the draft amount to 0; one that is not > 0
\* appends nothing, leaves the sheet and the draft values as they are and
\* only warns.  So every row the form appended has a positive amount.
C18_SubmitAppendsOneRowOrWarns ==
  /\ [][FormStep =>
          /\ expRows' # expRows =>
               /\ Len(expRows') = Len(expRows) + 1
               /\ SubSeq(expRows', 1, Len(expRows)) = expRows
               /\ ~RowAmount(expRows'[Len(expRows')]).nan
               /\ RowAmount(expRows'[Len(expRows')]).v > 0
               /\ session_state'.form_amount = 0
               /\ "warning" \notin DOMAIN view'
          /\ ("warning" \in DOMAIN view' /\ view' # view) =>
               /\ view'.amount <= 0
               /\ expRows' = expRows
               /\ session_state' = session_state
               /\ \A f \in DOMAIN view \ {"warning", "amount"} : view'[f] = view[f]
          /\ UNCHANGED <<lonRows, kitRows>>]_vars
  /\ [](\A i \in 1..Len(expRows) : ~RowAmount(expRows[i]).nan /\ RowAmount(expRows[i]).v > 0)

\* C18 witness: a receipt of 12.50 was scanned into the draft, an expense
\* was saved, and the draft amount is 0 again while the merchant stays
C18_Witness ==
  /\ view.page = "expense" /\ ~view.no_data
  /\ Len(expRows) = 1 /\ RowAmount(expRows[1]) = Num(1250)
  /\ view.total_exp = 1250
  /\ session_state.form_amount = 0 /\ session_state.form_merchant = T_GasStation

\* C18 witness of the refusal: an amount of 0 was submitted over an empty
\* sheet with a scanned draft, and the page only warns
C18_WitnessWarned ==
  /\ view.page = "expense" /\ "warning" \in DOMAIN view /\ view.amount = 0
  /\ expRows = <<>> /\ session_state.form_amount = 1250

====
